---------------------------- MODULE Spec2Model ----------------------------
(***************************************************************************)
(* OpenPlayground, js/app.js: the project gallery.  The module models the *)
(* start-up barrier (componentLoaded counter and fallback timer), the      *)
(* asynchronous load of projects.json, the search / category / sort /     *)
(* clear handlers, renderProjects with its sort and pagination, and the    *)
(* pagination buttons renderPagination builds.                             *)
(*                                                                         *)
(* Strings are sequences of one-character strings, so that toLowerCase,    *)
(* includes and localeCompare are computed and not assumed.                *)
(* ProjectVisibilityEngine lives in js/core/projectVisibilityEngine.js,    *)
(* which app.js imports; it is modelled from its written contract.         *)
(***************************************************************************)
EXTENDS Integers, Sequences, FiniteSets, TLC

(***************************************************************************)
(* Bounds of the model.                                                    *)
(***************************************************************************)
\* The longest projects.json the model loads.
MaxProjects == 46

(***************************************************************************)
(* Program constants.                                                      *)
(***************************************************************************)
itemsPerPage == 9
totalComponents == 6
maxVisible == 5

\* The element of a singleton set.  { e(x) : x \in {v} } computes v once.
The(S) == CHOOSE x \in S : TRUE

(***************************************************************************)
(* Strings.                                                                *)
(***************************************************************************)
\* String.prototype.toLowerCase, one character.
LowerChar(ch) ==
    CASE ch = "A" -> "a"
      [] ch = "B" -> "b"
      [] ch = "I" -> "i"
      [] ch = "W" -> "w"
      [] OTHER -> ch

\* String.prototype.toLowerCase.
toLowerCase(s) == [i \in 1..Len(s) |-> LowerChar(s[i])]

\* String.prototype.includes: t occurs in s as a contiguous substring.
includes(s, t) ==
    \E k \in 0..(Len(s) - Len(t)) : \A j \in 1..Len(t) : s[k + j] = t[j]

\* Alphabetical rank of a letter, case ignored.
LetterRank(ch) ==
    LET l == LowerChar(ch) IN
    CASE l = "a" -> 1
      [] l = "b" -> 2
      [] l = "e" -> 5
      [] l = "i" -> 9
      [] l = "l" -> 12
      [] l = "w" -> 23
      [] l = "z" -> 26
      [] OTHER -> 27

\* Lower case sorts before upper case.
CaseRank(ch) == IF LowerChar(ch) # ch THEN 1 ELSE 0

\* No string the model sorts is longer than this.
KeyWidth == 2

\* The number whose digits, in the given base, are the weights of the string's
\* characters, padded with zeros to KeyWidth digits: comparing two such
\* numbers compares the two weight sequences lexicographically.
RECURSIVE WeightKey(_, _, _)
WeightKey(weights, i, base) ==
    IF i > KeyWidth THEN 0
    ELSE (IF i <= Len(weights) THEN weights[i] ELSE 0) * (base ^ (KeyWidth - i))
         + WeightKey(weights, i + 1, base)

\* The collation key of a string under the default collation: the letters
\* decide first, case ignored; between strings with the same letters the
\* first difference of case decides, lower case first.
CollationKey(s) ==
    WeightKey([i \in 1..Len(s) |-> LetterRank(s[i])], 1, 32) * (2 ^ KeyWidth)
    + WeightKey([i \in 1..Len(s) |-> CaseRank(s[i])], 1, 2)

Sign(n) == IF n < 0 THEN -1 ELSE IF n > 0 THEN 1 ELSE 0

\* String.prototype.localeCompare: -1, 0 or 1.
localeCompare(a, b) == Sign(CollationKey(a) - CollationKey(b))

(***************************************************************************)
(* projects.json.                                                          *)
(***************************************************************************)
ALL == <<"a", "l", "l">>
WEB == <<"w", "e", "b">>

Titles ==
    << <<"A", "b">>, <<"b", "a">>, <<"a", "B">>, <<"B">>, <<"b", "A">> >>

Categories ==
    << <<"w", "e", "b">>, <<"A", "I">>, <<"W", "e", "b">>, <<"a", "i">> >>

\* A project record is named by its number in the catalogue, as an object is
\* by its reference; Title and Category read its fields.
Title(p) == Titles[((p - 1) % Len(Titles)) + 1]

Category(p) == Categories[((p - 1) % Len(Categories)) + 1]

\* The collation keys of the catalogue's titles.
TitleKeys == [i \in DOMAIN Titles |-> CollationKey(Titles[i])]

\* The collation key of a record's title.
TitleKey(p) == TitleKeys[((p - 1) % Len(Titles)) + 1]

\* The first n records of the catalogue.
Catalogue(n) == [i \in 1..n |-> i]

Reverse(s) == [i \in 1..Len(s) |-> s[Len(s) + 1 - i]]

\* A parsed JSON value: an array of records, or an object that is no array.
JsonArray(items) == [kind |-> "array", items |-> items]
JsonObject == [kind |-> "object", items |-> <<>>]

\* The lengths of projects.json the model loads.
StoreSizes == {0, 10, MaxProjects}

\* What projects.json may hold: an array of project records, a JSON value
\* that is no array, or text that is no JSON at all.
ProjectFiles ==
    [kind : {"json"}, data : {JsonArray(Catalogue(n)) : n \in StoreSizes}
                             \cup {JsonArray(Reverse(Catalogue(4)))}
                             \cup {JsonObject}]
    \cup {[kind |-> "invalid", data |-> JsonObject]}

\* The data-filter values of the category buttons.
FilterButtons == {ALL, WEB, <<"A", "I">>}

\* The texts the user types into the search box.
SearchTexts == {<<>>, <<"b", "A">>, <<"z", "z">>}

SortModes == {"default", "az", "za", "newest"}

(***************************************************************************)
(* ProjectVisibilityEngine (js/core/projectVisibilityEngine.js).           *)
(***************************************************************************)
Null == [null |-> TRUE]

\* new ProjectVisibilityEngine(records): records must be a sequence.
EngineAccepts(data) == data.kind = "array"

ProjectVisibilityEngine(data) ==
    [records |-> data.items, searchQuery |-> <<>>, category |-> ALL]

setSearchQuery(engine, text) == [engine EXCEPT !.searchQuery = text]

setCategory(engine, category) == [engine EXCEPT !.category = category]

reset(engine) == [engine EXCEPT !.searchQuery = <<>>, !.category = ALL]

MatchesCategory(engine, r) ==
    \/ engine.category = ALL
    \/ toLowerCase(Category(r)) = toLowerCase(engine.category)

MatchesSearch(engine, r) ==
    \/ engine.searchQuery = <<>>
    \/ includes(toLowerCase(Title(r)), toLowerCase(engine.searchQuery))

getVisibleProjects(engine) ==
    The({ SelectSeq(e.records,
                    LAMBDA r : MatchesCategory(e, r) /\ MatchesSearch(e, r))
          : e \in {engine} })

(***************************************************************************)
(* The state of app.js.                                                    *)
(***************************************************************************)
VARIABLES
    componentsLoaded,   \* the counter of componentLoaded events
    timerFired,         \* the 3000 ms fallback timeout has run
    initCount,          \* how many times initializeApp has run
    pendingFetches,     \* fetch("./projects.json") requests in flight
    projectsJson,       \* what ./projects.json holds
    allProjectsData,
    visibilityEngine,
    currentPage,
    currentCategory,
    currentSort,
    searchInput,        \* searchInput.value
    sortSelect,         \* sortSelect.value
    projectsContainer,  \* what .projects-container shows
    paginationControls, \* what renderPagination last built
    visibleProjects,    \* filteredProjects of the last render, before the sort
    filteredProjects,   \* filteredProjects of the last render, after the sort
    lastEvent,          \* the handler that ran last
    pageBeforeReset,    \* currentPage when the last search, category, sort or
                        \* clear handler started; 1 after any other event
    sortBeforeNewest,   \* currentSort when the sort select's change handler
                        \* last set "newest", if it ran last; else "default"
    dataTheme,          \* the data-theme attribute of the document element
    storedTheme         \* localStorage.getItem("theme")

vars ==
    <<componentsLoaded, timerFired, initCount, pendingFetches, projectsJson,
      allProjectsData, visibilityEngine, currentPage, currentCategory,
      currentSort, searchInput, sortSelect, projectsContainer,
      paginationControls, visibleProjects, filteredProjects, lastEvent,
      pageBeforeReset, sortBeforeNewest, dataTheme, storedTheme>>

startupVars == <<componentsLoaded, timerFired, initCount>>

themeVars == <<dataTheme, storedTheme>>

(***************************************************************************)
(* renderProjects: filter, sort, paginate.                                 *)
(***************************************************************************)
\* One comparator for both modes: a.title.localeCompare(b.title).
ComparatorIgnoresMode(mode, keyA, keyB) == Sign(keyA - keyB)

\* The comparator of filteredProjects.sort for a sort mode, on the collation
\* keys of the two titles: a.title.localeCompare(b.title) for "az",
\* b.title.localeCompare(a.title) for "za".
Comparator(mode, keyA, keyB) ==
    IF mode = "az" THEN Sign(keyA - keyB) ELSE Sign(keyB - keyA)

\* The records of list whose title's key is among keys, ordered by the
\* comparator; records the comparator ties stay in their order in list.
RECURSIVE SortedByKey(_, _, _)
SortedByKey(list, keys, mode) ==
    IF keys = {} THEN <<>>
    ELSE LET first == CHOOSE k \in keys :
                          \A other \in keys : Comparator(mode, k, other) <= 0
         IN  SelectSeq(list, LAMBDA p : TitleKey(p) = first)
             \o SortedByKey(list, keys \ {first}, mode)

\* filteredProjects.sort(comparator).  Array.prototype.sort is stable: the
\* result is ordered by the comparator, and records the comparator ties keep
\* their order.
StableSort(list, mode) ==
    The({ SortedByKey(l, {TitleKey(l[i]) : i \in DOMAIN l}, mode)
          : l \in {list} })

\* A switch whose "newest" reverses the list as sorted by title.
SortProjectsNewestOfSorted(list, mode) ==
    CASE mode = "az" -> StableSort(list, "az")
      [] mode = "za" -> StableSort(list, "za")
      [] mode = "newest" -> Reverse(StableSort(list, "az"))
      [] OTHER -> list

\* The switch on currentSort.
SortProjects(list, mode) ==
    CASE mode = "az" -> StableSort(list, "az")
      [] mode = "za" -> StableSort(list, "za")
      [] mode = "newest" -> Reverse(list)
      [] OTHER -> list

\* The fallback filter of renderProjects, used while there is no engine.
FallbackFilter(items, category) ==
    IF category # ALL
    THEN SelectSeq(items,
                   LAMBDA r : toLowerCase(Category(r)) = toLowerCase(category))
    ELSE items

\* renderProjects without its engine branch: the category filter alone.
FilterProjectsWithoutEngine(store, engine, category) ==
    [items |-> FallbackFilter(store.items, category), aliasesStore |-> FALSE]

\* renderProjects filtering allProjectsData itself, with no copy and no
\* engine: Array.prototype.filter makes a new array, no filter leaves the
\* store's own array to be sorted.
FilterProjectsInPlace(store, engine, category) ==
    [items |-> FallbackFilter(store.items, category),
     aliasesStore |-> category = ALL]

\* An engine that hands out the array it was constructed with, which is
\* allProjectsData, whenever it has nothing to filter.
FilterProjectsSharedArray(store, engine, category) ==
    IF engine # Null
    THEN [items |-> getVisibleProjects(engine),
          aliasesStore |-> engine.category = ALL /\ engine.searchQuery = <<>>]
    ELSE [items |-> FallbackFilter(store.items, category), aliasesStore |-> FALSE]

\* filteredProjects before the sort: a copy of allProjectsData, replaced by
\* the engine's result when there is an engine.  aliasesStore says whether
\* the array is allProjectsData itself, which an in-place sort would reorder.
FilterProjects(store, engine, category) ==
    IF engine # Null
    THEN [items |-> getVisibleProjects(engine), aliasesStore |-> FALSE]
    ELSE [items |-> FallbackFilter(store.items, category), aliasesStore |-> FALSE]

\* Math.ceil(a / b) for a >= 0, b > 0.
Ceil(a, b) == IF a % b = 0 THEN a \div b ELSE (a \div b) + 1

\* Math.floor in place of Math.ceil.
TotalPagesRoundedDown(totalItems) == totalItems \div itemsPerPage

TotalPages(totalItems) == Ceil(totalItems, itemsPerPage)

\* Array.prototype.slice(from, to) for 0 <= from <= to.
Slice(list, from, to) ==
    IF from >= Len(list) THEN <<>>
    ELSE SubSeq(list, from + 1, IF to < Len(list) THEN to ELSE Len(list))

\* The slice taken from page * itemsPerPage.
PageSliceOffByOne(list, page) ==
    LET start == page * itemsPerPage
    IN  Slice(list, start, start + itemsPerPage)

\* paginatedItems of renderProjects.
PageSlice(list, page) ==
    LET start == (page - 1) * itemsPerPage
    IN  Slice(list, start, start + itemsPerPage)

EmptyState == [kind |-> "empty", cards |-> <<>>]
LoadFailure == [kind |-> "loadFailure", cards |-> <<>>]
Cards(items) == [kind |-> "cards", cards |-> items]

\* renderPagination(totalPages): the controls are rebuilt from totalPages
\* and the currentPage of that moment; none are built for totalPages <= 1.
RenderPagination(totalPages, page) ==
    [totalPages |-> totalPages, currentPage |-> page]

\* renderProjects() in a state with the given store, engine and view state.
\* [...allProjectsData] throws when allProjectsData is not iterable, and the
\* page is left as it was.
RenderProjects(store, engine, category, sort, page) ==
    IF store.kind # "array"
    THEN [store |-> store, engine |-> engine,
          visible |-> visibleProjects, filtered |-> filteredProjects,
          container |-> projectsContainer, pagination |-> paginationControls]
    ELSE
    The({ The({
        LET totalPages == TotalPages(Len(sorted))
            paginatedItems == PageSlice(sorted, page)
        IN  [store |-> IF f.aliasesStore THEN JsonArray(sorted) ELSE store,
             engine |-> IF f.aliasesStore /\ engine # Null
                        THEN [engine EXCEPT !.records = sorted] ELSE engine,
             visible |-> f.items,
             filtered |-> sorted,
             container |-> IF paginatedItems = <<>> THEN EmptyState
                           ELSE Cards(paginatedItems),
             pagination |-> IF paginatedItems = <<>>
                            THEN RenderPagination(0, page)
                            ELSE RenderPagination(totalPages, page)]
        : sorted \in {SortProjects(f.items, sort)} })
      : f \in {FilterProjects(store, engine, category)} })

\* The handlers that set currentPage to 1 before they render.
ResetEvents == {"search", "category", "sort", "clear"}

\* The state a handler leaves after its assignments and its renderProjects().
Rendered(event, store, engine, category, sort, page) ==
    \E r \in {RenderProjects(store, engine, category, sort, page)} :
    /\ allProjectsData' = r.store
    /\ visibilityEngine' = r.engine
    /\ currentCategory' = category
    /\ currentSort' = sort
    /\ currentPage' = page
    /\ projectsContainer' = r.container
    /\ paginationControls' = r.pagination
    /\ visibleProjects' = r.visible
    /\ filteredProjects' = r.filtered
    /\ lastEvent' = event
    /\ pageBeforeReset' = IF event \in ResetEvents THEN currentPage ELSE 1
    /\ sortBeforeNewest' = IF event = "sort" /\ sort = "newest"
                           THEN currentSort ELSE "default"

\* No theme: what localStorage.getItem("theme") gives when nothing was saved,
\* and the data-theme attribute before setupEventListeners sets it.
NoTheme == "none"

\* localStorage.getItem("theme") || "light"
SavedTheme(stored) == IF stored = NoTheme THEN "light" ELSE stored

(***************************************************************************)
(* Start-up: the componentLoaded counter and the fallback timeout.         *)
(***************************************************************************)
Init ==
    /\ componentsLoaded = 0
    /\ timerFired = FALSE
    /\ initCount = 0
    /\ pendingFetches = 0
    /\ projectsJson \in ProjectFiles
    /\ allProjectsData = JsonArray(<<>>)
    /\ visibilityEngine = Null
    /\ currentPage = 1
    /\ currentCategory = ALL
    /\ currentSort = "default"
    /\ searchInput = <<>>
    /\ sortSelect = "default"
    /\ projectsContainer = [kind |-> "initial", cards |-> <<>>]
    /\ paginationControls = RenderPagination(0, 1)
    /\ visibleProjects = <<>>
    /\ filteredProjects = <<>>
    /\ lastEvent = "none"
    /\ pageBeforeReset = 1
    /\ sortBeforeNewest = "default"
    /\ dataTheme = NoTheme
    /\ storedTheme = NoTheme

galleryVars ==
    <<allProjectsData, visibilityEngine, currentPage, currentCategory,
      currentSort, projectsContainer, paginationControls, visibleProjects,
      filteredProjects, lastEvent, pageBeforeReset, sortBeforeNewest>>

\* initializeApp(): setupEventListeners() binds one more listener to every
\* control and shows the saved theme, fetchProjects() sends one more request.
initializeApp ==
    /\ initCount' = initCount + 1
    /\ pendingFetches' = pendingFetches + 1
    /\ dataTheme' = SavedTheme(storedTheme)

\* The componentLoaded listener.
ComponentLoaded ==
    /\ componentsLoaded < totalComponents
    /\ componentsLoaded' = componentsLoaded + 1
    /\ IF componentsLoaded + 1 = totalComponents
       THEN initializeApp
       ELSE UNCHANGED <<initCount, pendingFetches, dataTheme>>
    /\ UNCHANGED <<timerFired, projectsJson, searchInput, sortSelect,
                   storedTheme>>
    /\ UNCHANGED galleryVars

\* A timeout callback that never initializes.
FallbackTimeoutSkipped ==
    /\ ~timerFired
    /\ timerFired' = TRUE
    /\ UNCHANGED <<componentsLoaded, initCount, pendingFetches, projectsJson,
                   searchInput, sortSelect, themeVars>>
    /\ UNCHANGED galleryVars

\* The callback of setTimeout(..., 3000).
FallbackTimeout ==
    /\ ~timerFired
    /\ timerFired' = TRUE
    /\ IF componentsLoaded < totalComponents
       THEN initializeApp
       ELSE UNCHANGED <<initCount, pendingFetches, dataTheme>>
    /\ UNCHANGED <<componentsLoaded, projectsJson, searchInput, sortSelect,
                   storedTheme>>
    /\ UNCHANGED galleryVars

(***************************************************************************)
(* fetchProjects after its awaits.                                         *)
(***************************************************************************)
\* The catch block: the load-failure message replaces the container's content.
CatchLoadError(store) ==
    /\ allProjectsData' = store
    /\ projectsContainer' = LoadFailure
    /\ lastEvent' = "loadFailed"
    /\ pageBeforeReset' = 1
    /\ sortBeforeNewest' = "default"
    /\ UNCHANGED <<visibilityEngine, currentPage, currentCategory, currentSort,
                   paginationControls, visibleProjects, filteredProjects>>

\* fetch() rejects: the network failed.
FetchRejects ==
    /\ pendingFetches > 0
    /\ pendingFetches' = pendingFetches - 1
    /\ CatchLoadError(allProjectsData)
    /\ UNCHANGED <<startupVars, themeVars, projectsJson, searchInput, sortSelect>>

\* fetch() resolves and response.json() settles.
FetchResolves ==
    /\ pendingFetches > 0
    /\ pendingFetches' = pendingFetches - 1
    /\ IF projectsJson.kind = "invalid"
       THEN CatchLoadError(allProjectsData)
       ELSE IF ~EngineAccepts(projectsJson.data)
       THEN CatchLoadError(projectsJson.data)
       ELSE Rendered("load", projectsJson.data,
                     ProjectVisibilityEngine(projectsJson.data),
                     currentCategory, currentSort, currentPage)
    /\ UNCHANGED <<startupVars, themeVars, projectsJson, searchInput, sortSelect>>

(***************************************************************************)
(* The listeners setupEventListeners binds; the controls belong to the     *)
(* page's components and take the user's input once the listeners are      *)
(* bound.  A second initializeApp binds each listener a second time; the   *)
(* handlers below assign the same values and render the same page when     *)
(* they run twice for one event.                                           *)
(***************************************************************************)
\* A search handler that leaves the engine's search text as it is.
SearchEngineIgnoresText(engine, text) == engine

\* if (visibilityEngine) visibilityEngine.setSearchQuery(searchInput.value)
SearchEngine(engine, text) ==
    IF engine # Null THEN setSearchQuery(engine, text) ELSE engine

\* The category handler also resetting the engine's search text.
CategoryEngineResetsSearch(engine, category) ==
    IF engine # Null THEN setCategory(reset(engine), category) ELSE engine

\* if (visibilityEngine) visibilityEngine.setCategory(currentCategory)
CategoryEngine(engine, category) ==
    IF engine # Null THEN setCategory(engine, category) ELSE engine

\* The clear handler without its reset() call.
ClearEngineKeepsFilters(engine) == engine

\* if (visibilityEngine) visibilityEngine.reset()
ClearEngine(engine) ==
    IF engine # Null THEN reset(engine) ELSE engine

\* A handler that leaves currentPage as it is.
StayOnPage == currentPage

\* The page every filter and sort handler sets before it renders.
FirstPage == 1

\* The user edits the search box and the input listener runs.
SearchInput(text) ==
    /\ initCount > 0
    /\ searchInput' = text
    /\ Rendered("search", allProjectsData,
                SearchEngine(visibilityEngine, text),
                currentCategory, currentSort, FirstPage)
    /\ UNCHANGED <<startupVars, themeVars, pendingFetches, projectsJson, sortSelect>>

\* The user picks another sort mode and the change listener runs.
SortChange(mode) ==
    /\ initCount > 0
    /\ mode # sortSelect
    /\ sortSelect' = mode
    /\ Rendered("sort", allProjectsData, visibilityEngine,
                currentCategory, mode, FirstPage)
    /\ UNCHANGED <<startupVars, themeVars, pendingFetches, projectsJson, searchInput>>

\* A click on a category button.
FilterClick(category) ==
    /\ initCount > 0
    /\ Rendered("category", allProjectsData,
                CategoryEngine(visibilityEngine, category),
                category, currentSort, FirstPage)
    /\ UNCHANGED <<startupVars, themeVars, pendingFetches, projectsJson, searchInput,
                   sortSelect>>

\* A click on the clear-filters button.
ClearFilters ==
    /\ initCount > 0
    /\ searchInput' = <<>>
    /\ sortSelect' = "default"
    /\ Rendered("clear", allProjectsData, ClearEngine(visibilityEngine),
                ALL, currentSort, FirstPage)
    /\ UNCHANGED <<startupVars, themeVars, pendingFetches, projectsJson>>

(***************************************************************************)
(* The buttons renderPagination built at the last render.                  *)
(***************************************************************************)
Max(a, b) == IF a > b THEN a ELSE b
Min(a, b) == IF a < b THEN a ELSE b

EndPageFrom(totalPages, start) == Min(totalPages, start + maxVisible - 1)

\* startPage without the shift that fills the window near the last page.
StartPageWithoutShift(totalPages, page) == Max(1, page - (maxVisible \div 2))

\* startPage of renderPagination.
StartPage(totalPages, page) ==
    LET start == Max(1, page - (maxVisible \div 2))
        end == EndPageFrom(totalPages, start)
    IN  IF end - start + 1 < maxVisible THEN Max(1, end - maxVisible + 1)
        ELSE start

\* endPage of renderPagination.
EndPage(totalPages, page) ==
    EndPageFrom(totalPages, Max(1, page - (maxVisible \div 2)))

\* createBtn(label, disabled, onClick, isActive): target is the page the
\* button's onClick assigns to currentPage.
Button(kind, target, disabled, isActive) ==
    [kind |-> kind, target |-> target, disabled |-> disabled,
     active |-> isActive]

\* The "..." span.
Ellipsis == [kind |-> "ellipsis"]

\* What renderPagination(totalPages) appends to the pagination container,
\* in order, when currentPage is page.
PaginationButtons(totalPages, page) ==
    IF totalPages <= 1 THEN <<>>
    ELSE
    LET startPage == StartPage(totalPages, page)
        endPage == EndPage(totalPages, page)
    IN  <<Button("prev", page - 1, page = 1, FALSE)>>
        \o (IF startPage > 1
            THEN <<Button("first", 1, FALSE, FALSE)>>
                 \o (IF startPage > 2 THEN <<Ellipsis>> ELSE <<>>)
            ELSE <<>>)
        \o [k \in 1..(IF endPage >= startPage THEN endPage - startPage + 1
                      ELSE 0)
               |-> Button("number", startPage + k - 1, FALSE,
                          startPage + k - 1 = page)]
        \o (IF endPage < totalPages
            THEN (IF endPage < totalPages - 1 THEN <<Ellipsis>> ELSE <<>>)
                 \o <<Button("last", totalPages, FALSE, FALSE)>>
            ELSE <<>>)
        \o <<Button("next", page + 1, page = totalPages, FALSE)>>

\* if (totalPages <= 1) return: no controls.
HasControls == paginationControls.totalPages > 1

\* disabled of the previous-page button.
PrevDisabled == paginationControls.currentPage = 1

\* A next-page button that is never disabled.
NextNeverDisabled == FALSE

\* disabled of the next-page button.
NextDisabled ==
    paginationControls.currentPage = paginationControls.totalPages

\* A click on a pagination button that sets currentPage to page.
PageClick(page) ==
    /\ Rendered("page", allProjectsData, visibilityEngine, currentCategory,
                currentSort, page)
    /\ UNCHANGED <<startupVars, themeVars, pendingFetches, projectsJson, searchInput,
                   sortSelect>>

PrevPage ==
    /\ HasControls
    /\ ~PrevDisabled
    /\ PageClick(currentPage - 1)

NextPage ==
    /\ HasControls
    /\ ~NextDisabled
    /\ PageClick(currentPage + 1)

\* The numbered buttons startPage..endPage.
GoToPage(i) ==
    /\ HasControls
    /\ i >= StartPage(paginationControls.totalPages, paginationControls.currentPage)
    /\ i <= EndPage(paginationControls.totalPages, paginationControls.currentPage)
    /\ PageClick(i)

\* The separate "1" button.
GoToFirst ==
    /\ HasControls
    /\ StartPage(paginationControls.totalPages, paginationControls.currentPage) > 1
    /\ PageClick(1)

\* The separate last-page button.
GoToLast ==
    /\ HasControls
    /\ EndPage(paginationControls.totalPages, paginationControls.currentPage)
         < paginationControls.totalPages
    /\ PageClick(paginationControls.totalPages)

PageNumbers == 1..(TotalPages(MaxProjects) + 1)

Next ==
    \/ ComponentLoaded
    \/ FallbackTimeout
    \/ FetchRejects
    \/ FetchResolves
    \/ \E text \in SearchTexts : SearchInput(text)
    \/ \E mode \in SortModes : SortChange(mode)
    \/ \E category \in FilterButtons : FilterClick(category)
    \/ ClearFilters
    \/ PrevPage
    \/ NextPage
    \/ \E i \in PageNumbers : GoToPage(i)
    \/ GoToFirst
    \/ GoToLast

Spec == Init /\ [][Next]_vars

\* The browser runs the callback of a timer that was set: the fallback
\* timeout is not postponed for ever.  No componentLoaded event has to arrive.
FairSpec == Spec /\ WF_vars(FallbackTimeout)

(***************************************************************************)
(* renderProjects on any list and any page number: the store and the page  *)
(* are inputs drawn from bounded sets, and the one action renders them.    *)
(***************************************************************************)
\* The longest list and the largest page number that are paginated.
MaxListLength == 28
MaxPageNumber == 5

InitPaginate ==
    /\ componentsLoaded = totalComponents
    /\ timerFired = TRUE
    /\ initCount = 1
    /\ pendingFetches = 0
    /\ \E n \in 0..MaxListLength :
           /\ projectsJson = [kind |-> "json", data |-> JsonArray(Catalogue(n))]
           /\ allProjectsData = JsonArray(Catalogue(n))
    /\ visibilityEngine = Null
    /\ currentPage \in 1..MaxPageNumber
    /\ currentCategory = ALL
    /\ currentSort = "default"
    /\ searchInput = <<>>
    /\ sortSelect = "default"
    /\ projectsContainer = [kind |-> "initial", cards |-> <<>>]
    /\ paginationControls = RenderPagination(0, 1)
    /\ visibleProjects = <<>>
    /\ filteredProjects = <<>>
    /\ lastEvent = "none"
    /\ pageBeforeReset = 1
    /\ sortBeforeNewest = "default"
    /\ dataTheme = "light"
    /\ storedTheme = NoTheme

\* renderProjects() with the page number as it stands.
RenderPage ==
    /\ lastEvent = "none"
    /\ Rendered("render", allProjectsData, visibilityEngine, currentCategory,
                currentSort, currentPage)
    /\ UNCHANGED <<startupVars, themeVars, pendingFetches, projectsJson, searchInput,
                   sortSelect>>

NextPaginate == RenderPage

SpecPaginate == InitPaginate /\ [][NextPaginate]_vars

(***************************************************************************)
(* The theme toggle.  The theme and the gallery share no state: the theme  *)
(* is followed through the start-up and the load, from any saved theme,    *)
(* with clicks on the toggle button once its listeners are bound.          *)
(***************************************************************************)
\* What localStorage holds as the theme when the page opens.
SavedThemes == {NoTheme, "light", "dark"}

\* newTheme of the click listener.
ToggleTheme(theme) == IF theme = "light" THEN "dark" ELSE "light"

\* The data-theme attribute after the first n click listeners of the toggle
\* button have run, each reading the attribute the one before it set.
RECURSIVE AfterClickListeners(_, _)
AfterClickListeners(theme, n) ==
    IF n = 0 THEN theme
    ELSE ToggleTheme(AfterClickListeners(theme, n - 1))

\* A click on the toggle button: every setupEventListeners() call bound one
\* click listener to it, and the click runs them all; each sets the
\* attribute and saves it.
ThemeClick ==
    /\ initCount > 0
    /\ dataTheme' = AfterClickListeners(dataTheme, initCount)
    /\ storedTheme' = dataTheme'
    /\ UNCHANGED <<startupVars, pendingFetches, projectsJson, searchInput,
                   sortSelect>>
    /\ UNCHANGED galleryVars

InitTheme ==
    /\ componentsLoaded = 0
    /\ timerFired = FALSE
    /\ initCount = 0
    /\ pendingFetches = 0
    /\ projectsJson \in ProjectFiles
    /\ allProjectsData = JsonArray(<<>>)
    /\ visibilityEngine = Null
    /\ currentPage = 1
    /\ currentCategory = ALL
    /\ currentSort = "default"
    /\ searchInput = <<>>
    /\ sortSelect = "default"
    /\ projectsContainer = [kind |-> "initial", cards |-> <<>>]
    /\ paginationControls = RenderPagination(0, 1)
    /\ visibleProjects = <<>>
    /\ filteredProjects = <<>>
    /\ lastEvent = "none"
    /\ pageBeforeReset = 1
    /\ sortBeforeNewest = "default"
    /\ dataTheme = NoTheme
    /\ storedTheme \in SavedThemes

NextTheme ==
    \/ ComponentLoaded
    \/ FallbackTimeout
    \/ FetchRejects
    \/ FetchResolves
    \/ ThemeClick

SpecTheme == InitTheme /\ [][NextTheme]_vars

(***************************************************************************)
(* The page once projects.json has loaded: the six componentLoaded events  *)
(* arrived, initializeApp ran on the sixth, the fetch resolved with data   *)
(* and fetchProjects rendered it, and the fallback timer found nothing to  *)
(* do.  Nothing was saved as the theme.                                    *)
(***************************************************************************)
LoadedState(data) ==
    /\ componentsLoaded = totalComponents
    /\ timerFired = TRUE
    /\ initCount = 1
    /\ pendingFetches = 0
    /\ projectsJson = [kind |-> "json", data |-> data]
    /\ allProjectsData = data
    /\ visibilityEngine = ProjectVisibilityEngine(data)
    /\ currentPage = 1
    /\ currentCategory = ALL
    /\ currentSort = "default"
    /\ searchInput = <<>>
    /\ sortSelect = "default"
    /\ \E r \in {RenderProjects(data, ProjectVisibilityEngine(data), ALL,
                                 "default", 1)} :
           /\ projectsContainer = r.container
           /\ paginationControls = r.pagination
           /\ visibleProjects = r.visible
           /\ filteredProjects = r.filtered
    /\ lastEvent = "load"
    /\ pageBeforeReset = 1
    /\ sortBeforeNewest = "default"
    /\ dataTheme = "light"
    /\ storedTheme = NoTheme

(***************************************************************************)
(* The sort of renderProjects on any short list of records: the loaded     *)
(* store is an input drawn from a bounded set, and the change handler of   *)
(* the sort select sorts it.                                               *)
(***************************************************************************)
\* The lists that are sorted hold at most MaxSortLength of the records
\* 1..MaxSortRecord, each at most once; two of the records share a title.
MaxSortRecord == 6
MaxSortLength == 4

SortInputs ==
    {list \in UNION {[1..n -> 1..MaxSortRecord] : n \in 0..MaxSortLength} :
        \A i, j \in DOMAIN list : i # j => list[i] # list[j]}

InitSort == \E list \in SortInputs : LoadedState(JsonArray(list))

NextSort == \E mode \in SortModes : SortChange(mode)

SpecSort == InitSort /\ [][NextSort]_vars

(***************************************************************************)
(* A gallery of twelve projects, five in category web and seven in         *)
(* category ai, once it has loaded; the user searches, among others for a  *)
(* text no title holds, picks categories and sort modes, clears the        *)
(* filters and turns the two pages.                                        *)
(***************************************************************************)
\* Records 1, 3, 5, 7, 9 are web projects, the other seven ai projects.
ScenarioStore == JsonArray(<<1, 2, 3, 4, 5, 6, 7, 8, 9, 10, 12, 14>>)

\* "zz-no-match"
NoMatchText == <<"z", "z", "-", "n", "o", "-", "m", "a", "t", "c", "h">>

InitScenario == LoadedState(ScenarioStore)

NextScenario ==
    \/ \E text \in SearchTexts \cup {NoMatchText} : SearchInput(text)
    \/ \E mode \in SortModes : SortChange(mode)
    \/ \E category \in FilterButtons : FilterClick(category)
    \/ ClearFilters
    \/ PrevPage
    \/ NextPage
    \/ \E i \in PageNumbers : GoToPage(i)

SpecScenario == InitScenario /\ [][NextScenario]_vars

(***************************************************************************)
(* renderPagination for any number of pages and any page of them: the      *)
(* loaded store is an input drawn from a bounded set, and the pagination   *)
(* buttons lead to each of its pages.                                      *)
(***************************************************************************)
\* The longest store whose pages are turned.
MaxPagedRecords == 75

InitPages == \E n \in 0..MaxPagedRecords : LoadedState(JsonArray(Catalogue(n)))

NextPages ==
    \/ PrevPage
    \/ NextPage
    \/ \E i \in 1..(TotalPages(MaxPagedRecords) + 1) : GoToPage(i)
    \/ GoToFirst
    \/ GoToLast

SpecPages == InitPages /\ [][NextPages]_vars

(***************************************************************************)
(* The claims.                                                             *)
(***************************************************************************)
StoreLoaded == visibilityEngine # Null

\* The indexes of the records of R that the category c and the search text s
\* select: c is "all" or equals the record's category, case ignored, and s is
\* empty or occurs in the record's title, case ignored.
WantedIndexes(R, s, c) ==
    {i \in DOMAIN R :
        /\ c = ALL \/ toLowerCase(Category(R[i])) = toLowerCase(c)
        /\ \/ s = <<>>
           \/ \E a \in 1..Len(Title(R[i])) : \E b \in a..Len(Title(R[i])) :
                  SubSeq(toLowerCase(Title(R[i])), a, b) = toLowerCase(s)}

\* V lists exactly the records of R at the indexes W, in R's order.
IsSubsequenceAt(V, R, W) ==
    /\ Len(V) = Cardinality(W)
    /\ \A i \in W : V[1 + Cardinality({j \in W : j < i})] = R[i]

\* C1: what renderProjects obtains from getVisibleProjects() is exactly the
\* subsequence of the store, in store order, of the records whose category
\* matches the engine's category (or the category is "all") and whose title
\* contains the engine's search text (or the text is empty), case ignored;
\* it is empty when nothing matches.
C1_VisibleIsFilteredSubsequence ==
    StoreLoaded =>
        \A W \in {WantedIndexes(allProjectsData.items,
                                visibilityEngine.searchQuery,
                                visibilityEngine.category)} :
            IsSubsequenceAt(visibleProjects, allProjectsData.items, W)

\* A render under a search text and a category that select some records of
\* the store and drop others.
C1_Witness ==
    /\ StoreLoaded
    /\ visibilityEngine.searchQuery # <<>>
    /\ visibilityEngine.category # ALL
    /\ projectsContainer.kind = "cards"
    /\ Len(visibleProjects) > 1
    /\ Len(visibleProjects) < Len(allProjectsData.items)

\* totalPages of the current filtered set.
CurrentTotalPages ==
    TotalPages(Len(FilterProjects(allProjectsData, visibilityEngine,
                                  currentCategory).items))

\* C2: currentPage is an integer >= 1, and it is <= totalPages of the current
\* filtered set whenever that is >= 1, whatever events have happened.
C2_PageInRange ==
    /\ currentPage \in Nat
    /\ currentPage >= 1
    /\ allProjectsData.kind = "array" =>
           \A totalPages \in {CurrentTotalPages} :
               totalPages >= 1 => currentPage <= totalPages

\* A page click has led to the last of several pages.
C2_Witness ==
    /\ lastEvent = "page"
    /\ allProjectsData.kind = "array"
    /\ CurrentTotalPages >= 3
    /\ currentPage = CurrentTotalPages

\* C3: after a search edit, a category click, a sort change or a clear click
\* currentPage is 1, and the render of that handler ran with page 1.
C3_FilterEventsResetPage ==
    lastEvent \in ResetEvents =>
        /\ currentPage = 1
        /\ allProjectsData.kind = "array" => paginationControls.currentPage = 1

\* One of those handlers has run while a later page was shown.
C3_Witness ==
    /\ lastEvent \in ResetEvents
    /\ pageBeforeReset > 1
    /\ currentPage = 1

\* C4: initializeApp runs at most once, whatever the order of the
\* componentLoaded events and the fallback timer.
C4_InitializedAtMostOnce == initCount <= 1

\* C5: once the load has failed and no request is in flight, there is no
\* engine and the load-failure message stays on the page at every later event.
C5_LoadFailureMessageStays ==
    [][(/\ visibilityEngine = Null
        /\ pendingFetches = 0
        /\ projectsContainer = LoadFailure)
       => (visibilityEngine' = Null /\ projectsContainer' = LoadFailure)]_vars

\* The position of record p in list.
PositionIn(list, p) == CHOOSE i \in DOMAIN list : list[i] = p

\* C6: allProjectsData is the empty list it starts as or the array that was
\* loaded, records and order unchanged, and once sort "default" is selected
\* the rendered list is in store order again.
C6_StoreKeepsItsOrder ==
    /\ projectsJson.kind = "json" /\ projectsJson.data.kind = "array" =>
           allProjectsData \in {JsonArray(<<>>), projectsJson.data}
    /\ (StoreLoaded /\ currentSort = "default") =>
           /\ filteredProjects = visibleProjects
           /\ \A i, j \in DOMAIN filteredProjects :
                  i < j => PositionIn(allProjectsData.items, filteredProjects[i])
                             < PositionIn(allProjectsData.items, filteredProjects[j])

\* Sort "default" has been selected in place of another mode, for a loaded
\* store of several pages.
C6_Witness ==
    /\ StoreLoaded
    /\ lastEvent = "sort"
    /\ currentSort = "default"
    /\ Len(filteredProjects) > itemsPerPage
    /\ allProjectsData = projectsJson.data

\* C7: while there is no engine, allProjectsData is still the empty list: a
\* failed load does not set the store.
C7_FailedLoadKeepsStore ==
    visibilityEngine = Null => allProjectsData = JsonArray(<<>>)

\* A fresh engine over the store, given the search text and category of e.
FreshEngineLike(e) ==
    setCategory(setSearchQuery(ProjectVisibilityEngine(allProjectsData),
                               e.searchQuery), e.category)

\* C8: the visible set is the one a fresh engine over the store computes from
\* the current search text and category alone; the category handler and the
\* search handler leave the same engine in either order, and either handler
\* run twice with the same argument leaves the engine it leaves when run once.
C8_VisibleDependsOnPairOnly ==
    StoreLoaded =>
        /\ visibleProjects = getVisibleProjects(FreshEngineLike(visibilityEngine))
        /\ \A text \in SearchTexts, category \in FilterButtons :
               CategoryEngine(SearchEngine(visibilityEngine, text), category)
                 = SearchEngine(CategoryEngine(visibilityEngine, category), text)
        /\ \A category \in FilterButtons :
               CategoryEngine(CategoryEngine(visibilityEngine, category), category)
                 = CategoryEngine(visibilityEngine, category)
        /\ \A text \in SearchTexts :
               SearchEngine(SearchEngine(visibilityEngine, text), text)
                 = SearchEngine(visibilityEngine, text)

\* A search text and a category are both set and select some of the records.
C8_Witness ==
    /\ StoreLoaded
    /\ lastEvent \in {"search", "category"}
    /\ visibilityEngine.searchQuery # <<>>
    /\ visibilityEngine.category # ALL
    /\ Len(visibleProjects) > 0
    /\ Len(visibleProjects) < Len(allProjectsData.items)

\* C9: a clear-filters click with an engine leaves the visible set that a
\* freshly constructed engine over the same records gives, the whole store in
\* store order, and does not change the store.
C9_ClearShowsWholeStore ==
    [][(lastEvent' = "clear" /\ visibilityEngine' # Null) =>
           /\ visibleProjects' = allProjectsData.items
           /\ visibleProjects'
                = getVisibleProjects(ProjectVisibilityEngine(allProjectsData))
           /\ allProjectsData' = allProjectsData]_vars

\* A clear click has run on a loaded store of several records.
C9_Witness ==
    /\ StoreLoaded
    /\ lastEvent = "clear"
    /\ Len(allProjectsData.items) > itemsPerPage
    /\ visibleProjects = allProjectsData.items

\* The least k with k * itemsPerPage >= n.
CeilingOfPages(n) ==
    CHOOSE k \in 0..n : k * itemsPerPage >= n
                        /\ \A m \in 0..n : m * itemsPerPage >= n => k <= m

\* The records of list at the indexes (page-1)*itemsPerPage+1 .. page*itemsPerPage
\* that exist.
ContiguousRange(list, page) ==
    LET inRange == {i \in DOMAIN list : /\ i > (page - 1) * itemsPerPage
                                        /\ i <= page * itemsPerPage}
    IN  [j \in 1..Cardinality(inRange) |-> list[(page - 1) * itemsPerPage + j]]

\* C10: for a list of n records and a page number p >= 1, totalPages is
\* ceil(n / 9), 0 for n = 0, and the page shows the contiguous range
\* [(p-1)*9, p*9) of the list cut to its n records, nothing when p is past
\* the last page.
C10_PageIsContiguousRange ==
    lastEvent = "render" =>
        /\ TotalPages(Len(filteredProjects)) = CeilingOfPages(Len(filteredProjects))
        /\ projectsContainer.cards = ContiguousRange(filteredProjects, currentPage)
        /\ projectsContainer.kind = "empty" <=> projectsContainer.cards = <<>>

\* 20 records, page 4 of 3: the page is empty.
C10_Witness ==
    /\ lastEvent = "render"
    /\ Len(filteredProjects) = 20
    /\ TotalPages(Len(filteredProjects)) = 3
    /\ currentPage = 4
    /\ projectsContainer = EmptyState

\* The records of a list, as a set.
Records(list) == {list[i] : i \in DOMAIN list}

\* sorted holds the records of list, each once.
IsPermutationOf(sorted, list) ==
    /\ Len(sorted) = Len(list)
    /\ Records(sorted) = Records(list)

\* sorted is ordered by title, ascending for direction 1 and descending for
\* direction -1, and records with equal titles are in the order they have
\* in list.
IsStablyOrdered(sorted, list, direction) ==
    \A i, j \in DOMAIN sorted :
        i < j =>
            /\ direction * localeCompare(Title(sorted[i]), Title(sorted[j])) <= 0
            /\ Title(sorted[i]) = Title(sorted[j]) =>
                   PositionIn(list, sorted[i]) < PositionIn(list, sorted[j])

NoTitleTies(list) ==
    \A i, j \in DOMAIN list : i # j => Title(list[i]) # Title(list[j])

\* C11: under sort "az" the rendered list is a permutation of the filtered
\* set in ascending order of title, under "za" one in descending order,
\* records with equal titles in their original relative order in both; when
\* no two titles are equal, the "za" order of the filtered set is the reverse
\* of its "az" order.
C11_TitleSortsAreStable ==
    (lastEvent = "sort" /\ currentSort \in {"az", "za"}) =>
        /\ IsPermutationOf(filteredProjects, visibleProjects)
        /\ IsStablyOrdered(filteredProjects, visibleProjects,
                           IF currentSort = "az" THEN 1 ELSE -1)
        /\ NoTitleTies(visibleProjects) =>
               SortProjects(visibleProjects, "za")
                 = Reverse(SortProjects(visibleProjects, "az"))

\* Sort "za" on four records in neither order of title, two of them with the
\* same title: the result is not the reverse of the "az" order.
C11_Witness ==
    /\ lastEvent = "sort"
    /\ currentSort = "za"
    /\ Len(visibleProjects) = MaxSortLength
    /\ ~NoTitleTies(visibleProjects)
    /\ filteredProjects # visibleProjects
    /\ filteredProjects # Reverse(visibleProjects)
    /\ filteredProjects # Reverse(SortProjects(visibleProjects, "az"))

\* renderProjects has rendered the store as it stands.
HasRendered ==
    /\ lastEvent \in ResetEvents \cup {"page", "load"}
    /\ allProjectsData.kind = "array"

\* C12: under sort "newest" the rendered list is the reverse of the visible
\* set as recomputed from the store, in store order, also when "newest" was
\* selected while a title sort was shown.
C12_NewestReversesStoreOrder ==
    (HasRendered /\ currentSort = "newest") =>
        /\ visibleProjects
             = FilterProjects(allProjectsData, visibilityEngine,
                              currentCategory).items
        /\ filteredProjects = Reverse(visibleProjects)

\* "newest" has just replaced "az" on several records whose title order
\* differs from their store order.
C12_Witness ==
    /\ StoreLoaded
    /\ lastEvent = "sort"
    /\ currentSort = "newest"
    /\ sortBeforeNewest = "az"
    /\ Len(filteredProjects) > itemsPerPage
    /\ filteredProjects = Reverse(visibleProjects)
    /\ filteredProjects # Reverse(SortProjects(visibleProjects, "az"))

\* C13: in every execution in which the fallback timer is not postponed for
\* ever, initializeApp eventually runs; it has run once the timer has fired,
\* however few componentLoaded events arrived, and once the sixth
\* componentLoaded event has arrived.
C13_EventuallyInitialized ==
    /\ <>(initCount >= 1)
    /\ [](timerFired => initCount >= 1)
    /\ [](componentsLoaded = totalComponents => initCount >= 1)

\* The timer has initialized the app after fewer than six componentLoaded
\* events, and the load it started has rendered.
C13_Witness ==
    /\ timerFired
    /\ componentsLoaded < totalComponents
    /\ initCount = 1
    /\ lastEvent = "load"

\* The records of list whose category is c, case ignored.
InCategory(list, c) ==
    {i \in DOMAIN list : toLowerCase(Category(list[i])) = toLowerCase(c)}

\* C14: with the store of 12 records, 5 of category web and 7 of category ai,
\* and its engine loaded: a click on category web with no search text leaves
\* 5 visible records; typing "zz-no-match" under category web leaves none,
\* and renderPagination gets totalPages = 0; a clear click leaves all 12.
C14_TwelveRecordScenario ==
    [][/\ Len(allProjectsData.items) = 12
       /\ Cardinality(InCategory(allProjectsData.items, WEB)) = 5
       /\ Cardinality(InCategory(allProjectsData.items, <<"a", "i">>)) = 7
       /\ (/\ lastEvent' = "category"
           /\ currentCategory' = WEB
           /\ visibilityEngine.searchQuery = <<>>)
          => Len(visibleProjects') = 5
       /\ (/\ lastEvent' = "search"
           /\ searchInput' = NoMatchText
           /\ visibilityEngine.category = WEB)
          => /\ Len(visibleProjects') = 0
             /\ paginationControls'.totalPages = 0
       /\ lastEvent' = "clear" => Len(visibleProjects') = 12]_vars

\* "zz-no-match" has been typed after category web was selected.
C14_Witness ==
    /\ StoreLoaded
    /\ lastEvent = "search"
    /\ searchInput = NoMatchText
    /\ visibilityEngine.searchQuery = NoMatchText
    /\ visibilityEngine.category = WEB
    /\ Len(allProjectsData.items) = 12
    /\ Len(visibleProjects) = 0
    /\ paginationControls.totalPages = 0

\* C15: renderProjects, with the renderPagination call it makes, changes
\* neither the store nor the engine nor currentCategory, currentSort and
\* currentPage: after every handler these are what the handler itself
\* assigned before it rendered, and a click on a pagination button changes
\* currentPage only.
C15_RenderIsReadOnly ==
    [][/\ lastEvent' = "page" =>
              /\ visibilityEngine' = visibilityEngine
              /\ allProjectsData' = allProjectsData
              /\ currentCategory' = currentCategory
              /\ currentSort' = currentSort
              /\ searchInput' = searchInput
              /\ sortSelect' = sortSelect
       /\ lastEvent' = "search" =>
              /\ visibilityEngine' = SearchEngine(visibilityEngine, searchInput')
              /\ allProjectsData' = allProjectsData
              /\ currentCategory' = currentCategory
              /\ currentSort' = currentSort
              /\ currentPage' = 1
       /\ lastEvent' = "category" =>
              /\ visibilityEngine'
                   = CategoryEngine(visibilityEngine, currentCategory')
              /\ allProjectsData' = allProjectsData
              /\ currentSort' = currentSort
              /\ currentPage' = 1
       /\ lastEvent' = "sort" =>
              /\ visibilityEngine' = visibilityEngine
              /\ allProjectsData' = allProjectsData
              /\ currentCategory' = currentCategory
              /\ currentSort' = sortSelect'
              /\ currentPage' = 1
       /\ lastEvent' = "clear" =>
              /\ visibilityEngine' = ClearEngine(visibilityEngine)
              /\ allProjectsData' = allProjectsData
              /\ currentCategory' = ALL
              /\ currentSort' = currentSort
              /\ currentPage' = 1
       /\ lastEvent' = "load" =>
              /\ visibilityEngine' = ProjectVisibilityEngine(projectsJson.data)
              /\ allProjectsData' = projectsJson.data
              /\ currentCategory' = currentCategory
              /\ currentSort' = currentSort
              /\ currentPage' = currentPage]_vars

\* A pagination button was clicked while the whole store was shown sorted by
\* title: the page shows a later page of the sorted list, and the store and
\* the engine's records are in the order they were loaded in.
C15_Witness ==
    /\ StoreLoaded
    /\ lastEvent = "page"
    /\ currentSort = "az"
    /\ currentPage > 1
    /\ visibilityEngine.category = ALL
    /\ visibilityEngine.searchQuery = <<>>
    /\ filteredProjects # visibleProjects
    /\ allProjectsData = projectsJson.data
    /\ visibilityEngine.records = projectsJson.data.items

\* C16: whenever the engine exists, its category is currentCategory, the
\* category of the active filter button, and its searchQuery is the text of
\* the search box.
C16_EngineAgreesWithControls ==
    StoreLoaded =>
        /\ visibilityEngine.category = currentCategory
        /\ visibilityEngine.searchQuery = searchInput

\* C17: the sort mode renderProjects applies, currentSort, is the value the
\* sort select shows, and after a clear-filters click the rendered list is
\* in the default order.
C17_SortMatchesSelect ==
    /\ currentSort = sortSelect
    /\ (lastEvent = "clear" /\ allProjectsData.kind = "array") =>
           filteredProjects = visibleProjects

\* C18: what renderProjects rendered is the "No projects found" empty state,
\* with renderPagination(0), exactly when the filtered set is empty; when it
\* is not, the page shows between 1 and 9 cards and renderPagination got
\* ceil(|filtered| / 9).
C18_EmptyStateIffNothingFiltered ==
    HasRendered =>
        /\ projectsContainer = EmptyState <=> filteredProjects = <<>>
        /\ paginationControls.totalPages = 0 <=> filteredProjects = <<>>
        /\ filteredProjects # <<>> =>
               /\ projectsContainer.kind = "cards"
               /\ Len(projectsContainer.cards) \in 1..itemsPerPage
               /\ paginationControls.totalPages
                    = CeilingOfPages(Len(filteredProjects))

\* A search that no record of a loaded store of several pages matches, typed
\* while a later page was shown.
C18_Witness ==
    /\ StoreLoaded
    /\ lastEvent = "search"
    /\ pageBeforeReset > 1
    /\ Len(allProjectsData.items) > itemsPerPage
    /\ filteredProjects = <<>>
    /\ projectsContainer = EmptyState
    /\ paginationControls.totalPages = 0

\* The indexes of the buttons of the given kinds in a list of controls.
ButtonsOfKind(controls, kinds) ==
    {i \in DOMAIN controls : controls[i].kind \in kinds}

\* The controls renderPagination built for totalPages pages on page:
\* numbered buttons for the consecutive pages first..last, in order, of which
\* the one for page is the only active button; a separate first-page button
\* exactly when first > 1 and a separate last-page button exactly when
\* last < totalPages; no page on two buttons; every enabled button leads to
\* a page in 1..totalPages; prev is disabled exactly on page 1 and next
\* exactly on the last page.
IsPaginationWindow(controls, totalPages, page, first, last) ==
    LET numbered == ButtonsOfKind(controls, {"number"})
        toPages == ButtonsOfKind(controls, {"first", "number", "last"})
        all == ButtonsOfKind(controls, {"prev", "first", "number", "last",
                                        "next"})
    IN  /\ 1 <= first /\ first <= page /\ page <= last /\ last <= totalPages
        /\ last - first + 1 = Min(maxVisible, totalPages)
        /\ Cardinality(numbered) = last - first + 1
        /\ \A i \in numbered :
               controls[i].target = first + Cardinality({j \in numbered : j < i})
        /\ \A i \in all :
               controls[i].active <=>
                   (controls[i].kind = "number" /\ controls[i].target = page)
        /\ Cardinality({i \in all : controls[i].active}) = 1
        /\ Cardinality(ButtonsOfKind(controls, {"first"}))
             = (IF first > 1 THEN 1 ELSE 0)
        /\ Cardinality(ButtonsOfKind(controls, {"last"}))
             = (IF last < totalPages THEN 1 ELSE 0)
        /\ \A i \in ButtonsOfKind(controls, {"first"}) : controls[i].target = 1
        /\ \A i \in ButtonsOfKind(controls, {"last"}) :
               controls[i].target = totalPages
        /\ \A i, j \in toPages :
               controls[i].target = controls[j].target => i = j
        /\ \A i \in all :
               ~controls[i].disabled => controls[i].target \in 1..totalPages
        /\ Cardinality(ButtonsOfKind(controls, {"prev"})) = 1
        /\ Cardinality(ButtonsOfKind(controls, {"next"})) = 1
        /\ \A i \in all :
               controls[i].disabled <=>
                   \/ controls[i].kind = "prev" /\ page = 1
                   \/ controls[i].kind = "next" /\ page = totalPages

\* C19: for totalPages >= 2 and currentPage in 1..totalPages the controls
\* renderPagination builds are a window of min(5, totalPages) consecutive
\* numbered buttons around currentPage with the properties above; for
\* totalPages <= 1 it builds no controls.
C19_PaginationWindow ==
    \A totalPages \in {paginationControls.totalPages} :
    \A page \in {paginationControls.currentPage} :
    \A controls \in {PaginationButtons(totalPages, page)} :
        /\ totalPages <= 1 => controls = <<>>
        /\ (totalPages >= 2 /\ page \in 1..totalPages) =>
               \E first, last \in 1..totalPages :
                   IsPaginationWindow(controls, totalPages, page, first, last)

\* Page 5 of 9: first-page and last-page buttons, an ellipsis on either
\* side, and the numbered buttons 3..7.
C19_Witness ==
    /\ lastEvent = "page"
    /\ currentPage = 5
    /\ paginationControls = RenderPagination(9, 5)
    /\ Len(PaginationButtons(9, 5)) = 11
    /\ Cardinality(ButtonsOfKind(PaginationButtons(9, 5), {"ellipsis"})) = 2

\* C20: a click on the theme toggle changes the theme to the other of
\* "light" and "dark", and after it the saved theme is the displayed one,
\* whatever the order of the componentLoaded events and the fallback timer.
C20_ClickFlipsThemeOnce ==
    [][ThemeClick =>
           /\ dataTheme \in {"light", "dark"}
           /\ dataTheme' = ToggleTheme(dataTheme)
           /\ storedTheme' = dataTheme']_vars

=============================================================================
